---- MODULE Spec2Model ----
(***************************************************************************)
(* A model of ptr-notes.cpp: the Drawing class with its store of raw       *)
(* DrawingElement pointers (_drawing_ptrs) and its store of unique_ptr     *)
(* handles (_drawing_u_ptrs), together with the code that calls it: a      *)
(* caller that declares elements with automatic storage, passes their      *)
(* addresses, lets them go out of scope, obtains unique_ptr handles from   *)
(* the factory methods and moves them into the Drawing.                    *)
(*                                                                         *)
(* Every object ever constructed is one entry of elems, which holds the    *)
(* locals of the caller (auto), the objects allocated with new into a raw  *)
(* pointer (new) and those allocated into a unique_ptr (unique).  A        *)
(* pointer names the storage and the position in it; nullptr is also the   *)
(* empty unique_ptr.  An entry tells how often a destructor ran on the     *)
(* object (dtor) and how often operator delete was applied to its address  *)
(* (freed): "never", "once" or "again" (more than once), so that a double  *)
(* release and a delete of something never allocated with new stay         *)
(* visible.  Undefined behaviour is a choice among what a build can do:    *)
(* the process dies there (fault names why) or it carries on.              *)
(*                                                                         *)
(* ~DrawingElement is not virtual (line 18): a delete through the base     *)
(* pointer runs the base destructor only and hands the address to          *)
(* operator delete; the derived destructors are empty, so the model        *)
(* records one destructor run and one deallocation for it.                 *)
(***************************************************************************)
EXTENDS Integers, Sequences, FiniteSets, TLC

VARIABLES
    elems,            \* every element constructed so far, by address
    _drawing_ptrs,    \* std::vector<DrawingElement*>            (line 246)
    _drawing_u_ptrs,  \* std::vector<std::unique_ptr<DrawingElement>> (line 249)
    handles,          \* the caller's unique_ptr variables
    out,              \* the lines the last operation wrote to std::cout
    lastOp,           \* the operation that ran last
    lastArg,          \* the caller's handle it was given, if it was given one
    u_added,          \* what was emplaced into _drawing_u_ptrs since its last clear, in call order
    fault,            \* "none", or why the process died
    destroyed         \* the Drawing's destructor has returned

vars == <<elems, _drawing_ptrs, _drawing_u_ptrs, handles, out, lastOp, lastArg,
          u_added, fault, destroyed>>

\* ---------------------------------------------------------------- bounds
MaxAuto == 1       \* locals the caller declares
MaxNew == 6        \* objects draw_ptrs may allocate in one run
MaxUnique == 9     \* objects the factories and draw_u_ptrs may allocate in one run
MaxPtrs == 4       \* add_element_ptr is called while _drawing_ptrs is shorter
MaxUPtrs == 5      \* add_element_u_ptr is called while _drawing_u_ptrs is shorter
MaxHandles == 2    \* unique_ptr variables of the caller

\* ---------------------------------------------------------------- pointers
Ptr(storage, i) == [storage |-> storage, i |-> i]

nullptr == Ptr("null", 0)

\* ---------------------------------------------------------------- shapes
Point(x, y) == [kind |-> "Point", args |-> <<x, y>>]
Line(x1, y1, x2, y2) == [kind |-> "Line", args |-> <<x1, y1, x2, y2>>]
Rectangle(x, y, w, h) == [kind |-> "Rectangle", args |-> <<x, y, w, h>>]

\* One line of output: the text with %n for the n-th number streamed into it.
TextLine(t, ns) == [text |-> t, nums |-> ns]

EndlLine == TextLine("", <<>>)

\* Point::render, Line::render, Rectangle::render.  The rectangle prints its
\* dimension (_w, _h) before its origin (_x, _y).
render(shape) ==
    CASE shape.kind = "Point" ->
           TextLine("Rendering a point (%1, %2)", shape.args)
      [] shape.kind = "Line" ->
           TextLine("Rendering a line from (%1, %2) to (%3, %4)", shape.args)
      [] shape.kind = "Rectangle" ->
           TextLine("Rendering a rectangle of dimension %1x%2, from (%3, %4)",
                    <<shape.args[3], shape.args[4], shape.args[1], shape.args[2]>>)

\* The locals main declares (lines 263-265), in the order it declares them.
MainLocals == <<Point(11, 12), Line(22, 23, 124, 125), Rectangle(33, 34, 234, 75)>>

getPointPtr(x, y) == Point(x, y)
getLinePtr(x1, y1, x2, y2) == Line(x1, y1, x2, y2)
getRectanglePtr(x, y, w, h) == Rectangle(x, y, w, h)

\* What the caller has the factories make, one after the other.  The
\* constructors take any integers (lines 27, 42, 59).
FactoryCalls == <<getPointPtr(10, 15), getLinePtr(25, 25, 50, 100),
                  getRectanglePtr(50, 50, 100, 75)>>

\* ---------------------------------------------------------------- objects
Construct(shape) == [shape |-> shape, dtor |-> "never", freed |-> "never", ended |-> FALSE]

\* The object p points to, p not null.
At(els, p) == els[p.storage][p.i]

\* The addresses of the objects constructed so far in one storage.
Addresses(els, storage) == {Ptr(storage, i) : i \in 1..Len(els[storage])}

\* els with n more objects of these shapes constructed in a storage.
Allocate(els, storage, shapes) ==
    [els EXCEPT ![storage] = @ \o [i \in 1..Len(shapes) |-> Construct(shapes[i])]]

Bump(times) == IF times = "never" THEN "once" ELSE "again"

Live(e) == e.dtor = "never"

\* delete p, p not null: the destructor runs, then operator delete.
Deleted(els, p) ==
    [els EXCEPT ![p.storage][p.i] = [@ EXCEPT !.dtor = Bump(@), !.freed = Bump(@)]]

\* The end of the scope of a local: its destructor runs, nothing is freed.
ScopeExit(els, p) ==
    [els EXCEPT ![p.storage][p.i] = [@ EXCEPT !.dtor = Bump(@), !.ended = TRUE]]

\* delete p is defined only for the live result of a new-expression.
DeleteDefined(els, p) == p.storage # "auto" /\ Live(At(els, p))

\* The run is followed until the Drawing's destructor has returned or the
\* process has died.
Alive == fault = "none" /\ ~destroyed

Init ==
    /\ elems = [auto |-> <<>>, new |-> <<>>, unique |-> <<>>]
    /\ _drawing_ptrs = <<>>
    /\ _drawing_u_ptrs = <<>>
    /\ handles = [h \in 1..MaxHandles |-> nullptr]
    /\ out = <<>>
    /\ lastOp = "Drawing"
    /\ lastArg = 0
    /\ u_added = <<>>
    /\ fault = "none"
    /\ destroyed = FALSE

\* ---------------------------------------------------------------- the caller
\* Point point{11, 12}; Line line{...}; Rectangle rect{...}; and over again.
CallerDeclare ==
    /\ Alive
    /\ Len(elems.auto) < MaxAuto
    /\ elems' = Allocate(elems, "auto", <<MainLocals[(Len(elems.auto) % Len(MainLocals)) + 1]>>)
    /\ out' = <<>>
    /\ lastOp' = "declare"
    /\ lastArg' = 0
    /\ UNCHANGED <<_drawing_ptrs, _drawing_u_ptrs, handles, u_added, fault, destroyed>>

\* A local of the caller goes out of scope.
CallerScopeExit(p) ==
    /\ Alive
    /\ ~At(elems, p).ended
    /\ elems' = ScopeExit(elems, p)
    /\ out' = <<>>
    /\ lastOp' = "scope_exit"
    /\ lastArg' = 0
    /\ UNCHANGED <<_drawing_ptrs, _drawing_u_ptrs, handles, u_added, fault, destroyed>>

\* h = Drawing::getPointPtr(...) and the like (lines 155-165): a fresh object,
\* owned by the handle returned.  Which factory is called goes by the number
\* of objects made before.
CallerGetPtr(h) ==
    /\ Alive
    /\ handles[h] = nullptr
    /\ Len(elems.unique) < MaxUnique
    /\ elems' = Allocate(elems, "unique",
                         <<FactoryCalls[(Len(elems.unique) % Len(FactoryCalls)) + 1]>>)
    /\ handles' = [handles EXCEPT ![h] = Ptr("unique", Len(elems.unique) + 1)]
    /\ out' = <<>>
    /\ lastOp' = "getPtr"
    /\ lastArg' = 0
    /\ UNCHANGED <<_drawing_ptrs, _drawing_u_ptrs, u_added, fault, destroyed>>

\* ---------------------------------------------------------------- std::vector, std::unique_ptr
push_back(v, x) == Append(v, x)

\* A slip: the new handle goes in front of the others.
emplace_front(v, x) == <<x>> \o v

emplace_back(v, x) == Append(v, x)

\* A slip: the vector keeps what it held.
clear_nothing(v) == v

clear(v) == <<>>

\* A slip: the handle is copied, not moved.
CopiedFrom(p) == p

\* What std::move leaves in the unique_ptr it moved from.
MovedFrom(p) == nullptr

\* A slip: a handle that lets go of its object without deleting it.
ReleaseHandle(els, p) == els

\* ~unique_ptr: an empty handle releases nothing, any other deletes its object.
DestroyHandle(els, p) == IF p = nullptr THEN els ELSE Deleted(els, p)

\* The handles of a vector<unique_ptr> are destroyed, the first n of them.
RECURSIVE DestroyHandles(_, _, _)
DestroyHandles(els, v, n) ==
    IF n = 0 THEN els ELSE DestroyHandle(DestroyHandles(els, v, n - 1), v[n])

\* _drawing_u_ptrs.clear() (line 233) and the vector's own destructor.
clear_u_ptrs(els, v) == [elems |-> DestroyHandles(els, v, Len(v)), u_ptrs |-> clear(v)]

\* ---------------------------------------------------------------- calls through a pointer
\* p->render().  Through a null pointer the virtual call reads the vtable at
\* address 0; through a pointer to a destroyed object it is undefined: the
\* process dies ("pure virtual method called", lines 206-209) or the stale
\* object is rendered.
CallRender(els, p) ==
    IF p = nullptr
      THEN {[fault |-> "null_deref", line |-> EndlLine]}
    ELSE IF Live(At(els, p))
      THEN {[fault |-> "none", line |-> render(At(els, p).shape)]}
    ELSE {[fault |-> "use_after_destroy", line |-> EndlLine],
          [fault |-> "none", line |-> render(At(els, p).shape)]}

\* ---------------------------------------------------------------- render_ptrs (lines 124-140)
\* A slip: the test of line 134 left out.
IsNeverNull(p) == FALSE

IsNull(p) == p = nullptr

NullPointerLine == TextLine("  ** Null pointer", <<>>)

\* Line 128, the one notice of an empty collection the program has.
EmptyNotice == TextLine("Collection of pointers is empty", <<>>)

\* The loop of lines 133-139 from slot i on, lines holding what was written.
RECURSIVE RenderPtrsFrom(_, _, _, _)
RenderPtrsFrom(els, v, i, lines) ==
    IF i > Len(v) THEN {[fault |-> "none", out |-> lines]}
    ELSE IF IsNull(v[i])
      THEN RenderPtrsFrom(els, v, i + 1, Append(lines, NullPointerLine))
    ELSE UNION { IF c.fault = "none"
                   THEN RenderPtrsFrom(els, v, i + 1, Append(lines, c.line))
                   ELSE {[fault |-> c.fault, out |-> lines]}
                 : c \in CallRender(els, v[i]) }

RenderPtrsOutcomes(els, v) ==
    IF v = <<>>
      THEN {[fault |-> "none", out |-> <<EndlLine, EmptyNotice>>]}
      ELSE RenderPtrsFrom(els, v, 1,
             <<EndlLine, TextLine("Rendering %1 elements from pointers", <<Len(v)>>)>>)

render_ptrs ==
    /\ Alive
    /\ \E r \in RenderPtrsOutcomes(elems, _drawing_ptrs) :
         /\ out' = r.out
         /\ fault' = r.fault
    /\ lastOp' = "render_ptrs"
    /\ lastArg' = 0
    /\ UNCHANGED <<elems, _drawing_ptrs, _drawing_u_ptrs, handles, u_added, destroyed>>

\* ---------------------------------------------------------------- render_u_ptrs (lines 143-151)
\* A slip: render_u_ptrs given the test render_ptrs has at lines 127-130.
UPtrsPreambleChecked(v) ==
    IF v = <<>>
      THEN <<EndlLine, EmptyNotice>>
      ELSE <<EndlLine, TextLine("Rendering %1 elements from unique pointers", <<Len(v)>>)>>

\* Lines 144-145: written whatever the size is.
UPtrsPreamble(v) ==
    <<EndlLine, TextLine("Rendering %1 elements from unique pointers", <<Len(v)>>)>>

\* The loop of lines 148-150: every handle is dereferenced, none is tested.
RECURSIVE RenderUPtrsFrom(_, _, _, _)
RenderUPtrsFrom(els, v, i, lines) ==
    IF i > Len(v) THEN {[fault |-> "none", out |-> lines]}
    ELSE UNION { IF c.fault = "none"
                   THEN RenderUPtrsFrom(els, v, i + 1, Append(lines, c.line))
                   ELSE {[fault |-> c.fault, out |-> lines]}
                 : c \in CallRender(els, v[i]) }

render_u_ptrs ==
    /\ Alive
    /\ \E r \in RenderUPtrsFrom(elems, _drawing_u_ptrs, 1, UPtrsPreamble(_drawing_u_ptrs)) :
         /\ out' = r.out
         /\ fault' = r.fault
    /\ lastOp' = "render_u_ptrs"
    /\ lastArg' = 0
    /\ UNCHANGED <<elems, _drawing_ptrs, _drawing_u_ptrs, handles, u_added, destroyed>>

\* ---------------------------------------------------------------- add_element_ptr (lines 97-99)
\* The caller passes nullptr or the address of one of its locals, whatever
\* has happened to the local since.
add_element_ptr(element_ptr) ==
    /\ Alive
    /\ Len(_drawing_ptrs) < MaxPtrs
    /\ _drawing_ptrs' = push_back(_drawing_ptrs, element_ptr)
    /\ out' = <<>>
    /\ lastOp' = "add_element_ptr"
    /\ lastArg' = 0
    /\ UNCHANGED <<elems, _drawing_u_ptrs, handles, u_added, fault, destroyed>>

\* ---------------------------------------------------------------- add_element_u_ptr (lines 102-110)
\* The caller calls add_element_u_ptr(std::move(handles[h])): the parameter is
\* move-constructed from the caller's handle, and moved on into the vector.
add_element_u_ptr(h) ==
    /\ Alive
    /\ Len(_drawing_u_ptrs) < MaxUPtrs
    /\ _drawing_u_ptrs' = emplace_back(_drawing_u_ptrs, handles[h])
    /\ handles' = [handles EXCEPT ![h] = MovedFrom(@)]
    /\ u_added' = Append(u_added, handles[h])
    /\ out' = <<>>
    /\ lastOp' = "add_element_u_ptr"
    /\ lastArg' = h
    /\ UNCHANGED <<elems, _drawing_ptrs, fault, destroyed>>

\* ---------------------------------------------------------------- draw_ptrs (lines 199-220)
\* The vector is cleared, nothing is deleted.  The locals point, line and rect
\* of lines 202-204 are destroyed on return and their addresses go nowhere;
\* three objects are allocated with new.
DrawPtrsShapes == <<Point(45, 55), Line(88, 98, 456, 987), Rectangle(879, 654, 123, 321)>>

draw_ptrs ==
    /\ Alive
    /\ Len(elems.new) + Len(DrawPtrsShapes) <= MaxNew
    /\ elems' = Allocate(elems, "new", DrawPtrsShapes)
    /\ LET n == Len(elems.new)
       IN _drawing_ptrs' =
            push_back(push_back(push_back(clear(_drawing_ptrs),
               Ptr("new", n + 1)), Ptr("new", n + 2)), Ptr("new", n + 3))
    /\ out' = <<>>
    /\ lastOp' = "draw_ptrs"
    /\ lastArg' = 0
    /\ UNCHANGED <<_drawing_u_ptrs, handles, u_added, fault, destroyed>>

\* ---------------------------------------------------------------- clear_drawing_ptrs (lines 223-230)
\* The loop of lines 226-228 from slot i on: delete on every pointer of the
\* vector, whoever allocated what it points to.  delete nullptr does nothing.
\* delete on a local, or on an object destroyed before, is undefined: the
\* allocator aborts or the process carries on.
RECURSIVE DeleteFrom(_, _, _)
DeleteFrom(els, v, i) ==
    IF i > Len(v) THEN {[fault |-> "none", elems |-> els]}
    ELSE IF v[i] = nullptr THEN DeleteFrom(els, v, i + 1)
    ELSE IF DeleteDefined(els, v[i]) THEN DeleteFrom(Deleted(els, v[i]), v, i + 1)
    ELSE {[fault |-> "bad_delete", elems |-> Deleted(els, v[i])]}
           \cup DeleteFrom(Deleted(els, v[i]), v, i + 1)

DeletingLines == <<EndlLine, TextLine("* Deleting pointers", <<>>)>>

\* What a call leaves: the objects, the vector and whether the process died.
ClearDrawingPtrsOutcomes(els, v) ==
    { [fault |-> r.fault, elems |-> r.elems,
       ptrs |-> IF r.fault = "none" THEN clear(v) ELSE v]
      : r \in DeleteFrom(els, v, 1) }

clear_drawing_ptrs ==
    /\ Alive
    /\ \E r \in ClearDrawingPtrsOutcomes(elems, _drawing_ptrs) :
         /\ elems' = r.elems
         /\ _drawing_ptrs' = r.ptrs
         /\ fault' = r.fault
    /\ out' = DeletingLines
    /\ lastOp' = "clear_drawing_ptrs"
    /\ lastArg' = 0
    /\ UNCHANGED <<_drawing_u_ptrs, handles, u_added, destroyed>>

\* ---------------------------------------------------------------- draw_u_ptrs (lines 232-238)
DrawUPtrsShapes == <<Point(10, 15), getPointPtr(35, 22), getLinePtr(55, 122, 234, 556),
                     getRectanglePtr(3, 194, 34, 200)>>

draw_u_ptrs ==
    /\ Alive
    /\ Len(elems.unique) + Len(DrawUPtrsShapes) <= MaxUnique
    /\ LET c == clear_u_ptrs(elems, _drawing_u_ptrs)
           n == Len(elems.unique)
           made == [i \in 1..Len(DrawUPtrsShapes) |-> Ptr("unique", n + i)]
       IN /\ elems' = Allocate(c.elems, "unique", DrawUPtrsShapes)
          /\ _drawing_u_ptrs' =
               emplace_back(emplace_back(emplace_back(emplace_back(c.u_ptrs,
                  made[1]), made[2]), made[3]), made[4])
          /\ u_added' = made
    /\ out' = <<>>
    /\ lastOp' = "draw_u_ptrs"
    /\ lastArg' = 0
    /\ UNCHANGED <<_drawing_ptrs, handles, fault, destroyed>>

\* ---------------------------------------------------------------- ~Drawing (lines 79-81)
\* The body calls clear_drawing_ptrs(); then the members are destroyed, the
\* vector of unique_ptr with every handle in it.
DrawingDtor ==
    /\ Alive
    /\ \E r \in ClearDrawingPtrsOutcomes(elems, _drawing_ptrs) :
         /\ fault' = r.fault
         /\ _drawing_ptrs' = r.ptrs
         /\ IF r.fault = "none"
              THEN LET c == clear_u_ptrs(r.elems, _drawing_u_ptrs)
                   IN /\ elems' = c.elems
                      /\ _drawing_u_ptrs' = c.u_ptrs
                      /\ u_added' = <<>>
                      /\ destroyed' = TRUE
              ELSE /\ elems' = r.elems
                   /\ UNCHANGED <<_drawing_u_ptrs, u_added, destroyed>>
    /\ out' = DeletingLines
    /\ lastOp' = "~Drawing"
    /\ lastArg' = 0
    /\ UNCHANGED handles

\* ---------------------------------------------------------------- the program
Next ==
    \/ CallerDeclare
    \/ \E p \in Addresses(elems, "auto") : CallerScopeExit(p)
    \/ \E h \in 1..MaxHandles : CallerGetPtr(h)
    \/ \E p \in {nullptr} \cup Addresses(elems, "auto") : add_element_ptr(p)
    \/ \E h \in 1..MaxHandles : add_element_u_ptr(h)
    \/ render_ptrs
    \/ render_u_ptrs
    \/ draw_ptrs
    \/ clear_drawing_ptrs
    \/ draw_u_ptrs
    \/ DrawingDtor

Spec == Init /\ [][Next]_vars

\* The two stores share nothing but the destructor, so each is also run on
\* its own: the operations on the raw pointers,
NextPtrs ==
    \/ CallerDeclare
    \/ \E p \in Addresses(elems, "auto") : CallerScopeExit(p)
    \/ \E p \in {nullptr} \cup Addresses(elems, "auto") : add_element_ptr(p)
    \/ render_ptrs
    \/ draw_ptrs
    \/ clear_drawing_ptrs
    \/ DrawingDtor

SpecPtrs == Init /\ [][NextPtrs]_vars

\* and the operations on the unique pointers.
NextUPtrs ==
    \/ \E h \in 1..MaxHandles : CallerGetPtr(h)
    \/ \E h \in 1..MaxHandles : add_element_u_ptr(h)
    \/ render_u_ptrs
    \/ draw_u_ptrs
    \/ DrawingDtor

SpecUPtrs == Init /\ [][NextUPtrs]_vars

\* The operations that fill and clear the two stores.
NextClear ==
    \/ CallerDeclare
    \/ \E p \in {nullptr} \cup Addresses(elems, "auto") : add_element_ptr(p)
    \/ draw_ptrs
    \/ clear_drawing_ptrs
    \/ draw_u_ptrs
    \/ DrawingDtor

SpecClear == Init /\ [][NextClear]_vars

\* ================================================================ properties
\* The lines other than the bare std::endl ones.
Messages(lines) == SelectSeq(lines, LAMBDA l : l # EndlLine)

InUPtrs(p) == \E i \in 1..Len(_drawing_u_ptrs) : _drawing_u_ptrs[i] = p

InHandles(p) == \E h \in 1..MaxHandles : handles[h] = p

\* How many handles before the first empty one.
NonEmptyPrefix(v) ==
    IF \E i \in 1..Len(v) : v[i] = nullptr
      THEN (CHOOSE i \in 1..Len(v) : v[i] = nullptr /\ \A j \in 1..(i - 1) : v[j] # nullptr) - 1
      ELSE Len(v)

Owners(p) ==
    Cardinality({i \in 1..Len(_drawing_u_ptrs) : _drawing_u_ptrs[i] = p})
      + Cardinality({h \in 1..MaxHandles : handles[h] = p})

\* C2: add_element_u_ptr leaves the caller's handle empty, and every object
\* made for a unique_ptr has one owning handle while it lives and none after.
C2_OwnershipMoved ==
    /\ lastOp = "add_element_u_ptr" => handles[lastArg] = nullptr
    /\ \A p \in Addresses(elems, "unique") :
         /\ InUPtrs(p) => Owners(p) = 1
         /\ Owners(p) = IF Live(At(elems, p)) THEN 1 ELSE 0

C2_Witness ==
    /\ lastOp = "add_element_u_ptr"
    /\ Len(_drawing_u_ptrs) >= 2
    /\ \A i \in 1..Len(_drawing_u_ptrs) : _drawing_u_ptrs[i] # nullptr

C4_BorrowedNeverDeleted ==
    \A p \in Addresses(elems, "auto") :
      /\ At(elems, p).freed = "never"
      /\ ~At(elems, p).ended => Live(At(elems, p))

\* C5: every pointer in _drawing_ptrs that is not null points to a live object.
C5_NoDanglingPointer ==
    \A i \in 1..Len(_drawing_ptrs) :
      _drawing_ptrs[i] # nullptr => Live(At(elems, _drawing_ptrs[i]))

\* C6: render_u_ptrs never calls render() through an empty handle.
C6_EmptyHandleNotDereferenced == ~(lastOp = "render_u_ptrs" /\ fault = "null_deref")

\* C7: render_ptrs on a store that is not empty writes, slot by slot and in
\* the order of the store, one null notice for a null pointer and the render
\* of the object for any other; it reaches the last slot unless it stops at a
\* pointer to a destroyed object, and it never stops at a null pointer.
C7_NullSlotsReported ==
    (lastOp = "render_ptrs" /\ _drawing_ptrs # <<>>) =>
      LET k == Len(out) - 2
      IN /\ k \in 0..Len(_drawing_ptrs)
         /\ out[2] = [text |-> "Rendering %1 elements from pointers",
                      nums |-> <<Len(_drawing_ptrs)>>]
         /\ \A i \in 1..k :
              out[2 + i] = IF _drawing_ptrs[i] = nullptr
                             THEN [text |-> "  ** Null pointer", nums |-> <<>>]
                             ELSE render(At(elems, _drawing_ptrs[i]).shape)
         /\ fault = "none" => k = Len(_drawing_ptrs)
         /\ fault # "none" =>
              /\ fault = "use_after_destroy"
              /\ _drawing_ptrs[k + 1] # nullptr
              /\ ~Live(At(elems, _drawing_ptrs[k + 1]))

\* A null pointer first, between two objects and last.
C7_Witness ==
    /\ lastOp = "render_ptrs"
    /\ fault = "none"
    /\ Len(_drawing_ptrs) = 3
    /\ \E i \in 1..3 :
         /\ _drawing_ptrs[i] = nullptr
         /\ \E j \in 1..3 : j > i /\ _drawing_ptrs[j] # nullptr
    /\ _drawing_ptrs[3] = nullptr
    /\ Len(Messages(out)) = 4

C9_ClearIdempotent ==
    /\ \A r \in ClearDrawingPtrsOutcomes(elems, _drawing_ptrs) :
         r.fault = "none" =>
           /\ r.ptrs = <<>>
           /\ ClearDrawingPtrsOutcomes(r.elems, r.ptrs) = {r}
    /\ LET once == clear_u_ptrs(elems, _drawing_u_ptrs)
       IN /\ once.u_ptrs = <<>>
          /\ clear_u_ptrs(once.elems, once.u_ptrs) = once

\* clear_drawing_ptrs has returned, having deleted the three objects of
\* draw_ptrs, with the owned store filled.
C9_Witness ==
    /\ lastOp = "clear_drawing_ptrs"
    /\ fault = "none"
    /\ _drawing_ptrs = <<>>
    /\ \E p \in Addresses(elems, "new") : At(elems, p).freed = "once"
    /\ Len(_drawing_u_ptrs) = 4

\* C10: once the destructor has returned, every object draw_ptrs allocated
\* has been deleted exactly once.
C10_NewAlwaysDeleted ==
    destroyed => \A p \in Addresses(elems, "new") : At(elems, p).freed = "once"

====
